---------------------------- MODULE Spec2Model ----------------------------
(***************************************************************************)
(* StudyHub backend: the request authenticator (backend/middleware/auth.js)*)
(* in front of the note, doubt and timetable routes of the server entry    *)
(* point (src/unnamed/part_000, lines 196-697), and in front of the        *)
(* protected route of the entry point before it (lines 101-193).           *)
(*                                                                         *)
(* A request takes the steps of its middleware chain: Authenticate (auth    *)
(* answers it, or attaches an identity and calls next()), then the route's *)
(* handler up to its first await, then one step per await of the handler,  *)
(* between which the steps of other handlers are taken, then EndResponse.  *)
(* The process goes from module load through the environment checks and    *)
(* the connection to listening, or exits.                                  *)
(*                                                                         *)
(* Module load registers the routes.  The server entry point takes the     *)
(* property auth of './middleware/auth' and the entry point before it      *)
(* takes the module's value; backend/middleware/auth.js exports the        *)
(* function itself, so with it the name auth of the server entry point is  *)
(* undefined, the registration of its first route throws, and the process  *)
(* exits at load, having served nothing.                                   *)
(*                                                                         *)
(* Two parts of the program are not in the source at hand and are modelled *)
(* from the specification.  The Mongoose models (models/Note, models/Doubt,*)
(* models/Timetable, models/User): a collection keeps the documents it is  *)
(* handed, a query matches on field equality, a save of a loaded document  *)
(* writes the paths that were modified, and any store call may throw.  A   *)
(* './middleware/auth' that exports the request authenticator under the    *)
(* name auth, the module the server entry point is written against: with   *)
(* it the routes are served behind the authenticator, as the specification *)
(* describes them.                                                         *)
(***************************************************************************)
EXTENDS Integers, Sequences, FiniteSets, Bags, TLC

VARIABLES
    disableAuth,   \* DISABLE_AUTH, read once when auth.js is loaded
    jwtSecret,     \* TRUE iff process.env.JWT_SECRET is set
    mongoUri,      \* TRUE iff process.env.MONGODB_URI is set
    originsOk,     \* FALSE iff NODE_ENV is 'production' and ALLOWED_ORIGINS unset
    authModule,    \* what require('./middleware/auth') returns
    phase,         \* the process: loading, connecting, listening or exited
    connected,     \* TRUE once mongoose.connect has succeeded
    users,         \* identifiers of the User records in the store
    notes,         \* Note collection, most recently updated first
    doubts,        \* Doubt collection, most recently created first
    timetables,    \* Timetable collection, in insertion order
    nextId,        \* next document identifier the store hands out
    req,           \* the request the authenticator passed on with next()
    inflight,      \* the bag of the handlers suspended at an await
    last           \* the response to the latest request, once it is sent

vars ==
    <<disableAuth, jwtSecret, mongoUri, originsOk, authModule, phase,
      connected, users, notes, doubts, timetables, nextId, req, inflight, last>>

\* The environment and the User collection, which no route shown writes.
config == <<disableAuth, jwtSecret, mongoUri, originsOk, authModule, users>>

\* The state of the process.
server == <<phase, connected>>

(***************************************************************************)
(* Bounds of the model.                                                    *)
(***************************************************************************)
MaxIds == 1            \* notes and doubts ever created
MaxTimetables == 2     \* timetables ever created
MaxHeaderPieces == 2   \* pieces of an Authorization header
MaxMulti == 1          \* characters of each multi-byte width in a content
MaxInflight == 2       \* handlers suspended at an await
MaxAnswers == 2        \* answers ever appended

(***************************************************************************)
(* Program constants.                                                      *)
(***************************************************************************)
MaxContentBytes == 100000

(***************************************************************************)
(* JavaScript values.  Undefined is the value of an absent property;       *)
(* String(undefined) is the string "undefined".                            *)
(***************************************************************************)
Undefined == "#undefined"

String(v) == IF v = Undefined THEN "undefined" ELSE v

UserIds == {"u1", "u2"}

(***************************************************************************)
(* Sequence helpers.                                                       *)
(***************************************************************************)
SeqsUpTo(S, n) == UNION {[1..k -> S] : k \in 0..n}

IndexOfFirst(s, x) ==
    IF \E i \in 1..Len(s) : s[i] = x
    THEN CHOOSE i \in 1..Len(s) : s[i] = x /\ \A j \in 1..(i - 1) : s[j] # x
    ELSE 0

RemoveAt(s, i) == SubSeq(s, 1, i - 1) \o SubSeq(s, i + 1, Len(s))

Filter(s, keep(_)) == SelectSeq(s, keep)

Range(s) == {s[i] : i \in 1..Len(s)}

(***************************************************************************)
(* Bearer credentials.  A header is absent or a string; a string is a      *)
(* sequence of pieces, each the literal 'Bearer ', the word 'Bearer' with  *)
(* no blank after it, or a credential.  What jwt.verify makes of a         *)
(* credential is the credential's kind:                                    *)
(*   valid    signed with the server's secret, unexpired, payload {id}     *)
(*   noid     signed with the server's secret, unexpired, payload without id*)
(*   expired  signed with the server's secret, past its expiry             *)
(*   garbage  not a token signed with the server's secret                  *)
(***************************************************************************)
BearerPiece == [kind |-> "Bearer ", sub |-> "-"]

\* The word 'Bearer' without the blank: no occurrence of the literal
\* 'Bearer ', and no token jwt.verify accepts.
BearerWord == [kind |-> "Bearer", sub |-> "-"]

Credentials ==
    {[kind |-> "valid", sub |-> u] : u \in UserIds}
    \cup {[kind |-> "noid", sub |-> "-"],
          [kind |-> "expired", sub |-> "u1"],
          [kind |-> "garbage", sub |-> "-"]}

NoHeader == [present |-> FALSE, str |-> <<>>]

\* The values a caller can hand to auth as req.header('Authorization').
RawHeaders ==
    {NoHeader} \cup
    {[present |-> TRUE, str |-> s] :
        s \in SeqsUpTo({BearerPiece} \cup Credentials, MaxHeaderPieces)}

\* A header value as the HTTP parser delivers it: without the blanks that end
\* it, so that a value ending in 'Bearer ' arrives ending in 'Bearer'.
HttpTrim(str) ==
    IF str # <<>> /\ str[Len(str)] = BearerPiece
    THEN [str EXCEPT ![Len(str)] = BearerWord]
    ELSE str

\* The values req.header('Authorization') has for requests received over HTTP.
HeaderInputs == {[h EXCEPT !.str = HttpTrim(@)] : h \in RawHeaders}

\* req.header('Authorization')?.replace('Bearer ', ''): the first occurrence of
\* the literal is removed, wherever it stands; an absent header gives undefined.
StripBearer(str) ==
    LET i == IndexOfFirst(str, BearerPiece)
    IN  IF i = 0 THEN str ELSE RemoveAt(str, i)

\* !token: undefined and the empty string are falsy.
NoToken(h) == ~h.present \/ StripBearer(h.str) = <<>>

\* jwt.verify(token, secret): the payload, or a throw.
JwtVerify(token) ==
    IF Len(token) = 1 /\ token[1].kind \in {"valid", "noid"}
    THEN [throws |-> FALSE,
          id |-> IF token[1].kind = "valid" THEN token[1].sub ELSE Undefined]
    ELSE [throws |-> TRUE, id |-> Undefined]

(***************************************************************************)
(* Identities the authenticator attaches to a request.                     *)
(***************************************************************************)
NoUser == [_id |-> Undefined, id |-> Undefined]
DevUser == [_id |-> Undefined, id |-> "dev-user"]
StoreUser(u) == [_id |-> u, id |-> u]       \* a User document (id is _id's getter)
MinimalUser(u) == [_id |-> Undefined, id |-> u]

\* The identifier of an identity, as the resolve route reads it:
\* req.user._id || req.user.id.
RequesterId(user) == IF user._id # Undefined THEN user._id ELSE user.id

LookupOutcomes == {"ok", "throws"}
StoreOutcomes == {"ok", "throws"}

Reject(status) == [next |-> FALSE, status |-> status, user |-> NoUser]
Proceed(user) == [next |-> TRUE, status |-> 0, user |-> user]

\* auth as it would be with the token tested before the bypass flag.
AuthTokenBeforeBypass(h, lookup, bypass, secret, userIds) ==
    IF NoToken(h) THEN Reject(401)
    ELSE IF bypass THEN Proceed(DevUser)
    ELSE IF ~secret THEN Reject(500)
    ELSE LET decoded == JwtVerify(StripBearer(h.str))
         IN  IF decoded.throws THEN Reject(401)
             ELSE IF decoded.id = Undefined THEN Reject(401)
             ELSE IF lookup = "ok" /\ decoded.id \in userIds
                  THEN Proceed(StoreUser(decoded.id))
                  ELSE Proceed(MinimalUser(decoded.id))

\* auth as it would be without the try block around the lookup: its throw
\* reaches the outer catch, which answers 401.
AuthLookupUncaught(h, lookup, bypass, secret, userIds) ==
    IF bypass THEN Proceed(DevUser)
    ELSE IF NoToken(h) THEN Reject(401)
    ELSE IF ~secret THEN Reject(500)
    ELSE LET decoded == JwtVerify(StripBearer(h.str))
         IN  IF decoded.throws THEN Reject(401)
             ELSE IF decoded.id = Undefined THEN Reject(401)
             ELSE IF lookup = "throws" THEN Reject(401)
             ELSE IF decoded.id \in userIds
                  THEN Proceed(StoreUser(decoded.id))
                  ELSE Proceed(MinimalUser(decoded.id))

\* auth as it would be with the secret tested before the token.
AuthSecretFirst(h, lookup, bypass, secret, userIds) ==
    IF bypass THEN Proceed(DevUser)
    ELSE IF ~secret THEN Reject(500)
    ELSE IF NoToken(h) THEN Reject(401)
    ELSE LET decoded == JwtVerify(StripBearer(h.str))
         IN  IF decoded.throws THEN Reject(401)
             ELSE IF decoded.id = Undefined THEN Reject(401)
             ELSE IF lookup = "ok" /\ decoded.id \in userIds
                  THEN Proceed(StoreUser(decoded.id))
                  ELSE Proceed(MinimalUser(decoded.id))

\* auth as it would be with jwt.verify outside the try block: its throw
\* reaches the error handler, which answers 500.
AuthVerifyUncaught(h, lookup, bypass, secret, userIds) ==
    IF bypass THEN Proceed(DevUser)
    ELSE IF NoToken(h) THEN Reject(401)
    ELSE IF ~secret THEN Reject(500)
    ELSE LET decoded == JwtVerify(StripBearer(h.str))
         IN  IF decoded.throws THEN Reject(500)
             ELSE IF decoded.id = Undefined THEN Reject(401)
             ELSE IF lookup = "ok" /\ decoded.id \in userIds
                  THEN Proceed(StoreUser(decoded.id))
                  ELSE Proceed(MinimalUser(decoded.id))

\* auth(req, res, next): what it answers, or the identity it attaches before
\* calling next().
Auth(h, lookup, bypass, secret, userIds) ==
    IF bypass THEN Proceed(DevUser)
    ELSE IF NoToken(h) THEN Reject(401)
    ELSE IF ~secret THEN Reject(500)
    ELSE LET decoded == JwtVerify(StripBearer(h.str))
         IN  IF decoded.throws THEN Reject(401)
             ELSE IF decoded.id = Undefined THEN Reject(401)
             ELSE IF lookup = "ok" /\ decoded.id \in userIds
                  THEN Proceed(StoreUser(decoded.id))
                  ELSE Proceed(MinimalUser(decoded.id))

\* The collaborators auth calls on its way: jwt.verify once there is a token
\* and a secret, User.findById once the payload carries an id.
AuthCalls(h, bypass, secret) ==
    IF bypass \/ NoToken(h) \/ ~secret THEN {}
    ELSE LET decoded == JwtVerify(StripBearer(h.str))
         IN  IF decoded.throws \/ decoded.id = Undefined THEN {"jwt.verify"}
             ELSE {"jwt.verify", "User.findById"}

(***************************************************************************)
(* Strings of a request body.  A content string is kept as the number of   *)
(* its characters of each UTF-8 width (1 to 4 bytes), the variation        *)
(* selectors U+FE0E and U+FE0F (three bytes each) counted apart in vs.     *)
(***************************************************************************)
Content(n1, n2, n3, n4, sel) ==
    [kind |-> "string", b1 |-> n1, b2 |-> n2, b3 |-> n3, b4 |-> n4,
     vs |-> sel]

NoContent ==
    [kind |-> "undefined", b1 |-> 0, b2 |-> 0, b3 |-> 0, b4 |-> 0, vs |-> 0]

\* Buffer.byteLength(content, 'utf8')
ByteLength(c) == c.b1 + 2 * c.b2 + 3 * c.b3 + 4 * c.b4 + 3 * c.vs

\* content.length: UTF-16 units, two for a character of four bytes.
StringLength(c) == c.b1 + c.b2 + c.b3 + 2 * c.b4 + c.vs

\* The releases of validator.js the validation chain may run on: isLength()
\* leaves the variation selectors out of the length from 13.11 on, and
\* counts them before.
ValidatorReleases == {"13.11", "13.9"}

\* The length isLength() measures: UTF-16 units less one per surrogate pair
\* and, from 13.11 on, less one per variation selector.
ValidatorLength(c, release) ==
    StringLength(c) - c.b4 - (IF release = "13.11" THEN c.vs ELSE 0)

Hello == Content(5, 0, 0, 0, 0)

\* Every mix of widths within MaxMulti of 100,000 and 100,001 bytes.
BoundaryContents ==
    {c \in {Content(n1, n2, n3, n4, sel) :
                n1 \in (MaxContentBytes - 12 * MaxMulti)..(MaxContentBytes + 1),
                n2 \in 0..MaxMulti, n3 \in 0..MaxMulti, n4 \in 0..MaxMulti,
                sel \in 0..MaxMulti} :
        ByteLength(c) \in {MaxContentBytes, MaxContentBytes + 1}}

\* A title: absent, or a string of characters.
Title(s) == [kind |-> "string", val |-> s]
NoTitle == [kind |-> "undefined", val |-> <<>>]

RECURSIVE TrimStart(_)
TrimStart(s) == IF s # <<>> /\ Head(s) = " " THEN TrimStart(Tail(s)) ELSE s

RECURSIVE TrimEnd(_)
TrimEnd(s) ==
    IF s # <<>> /\ s[Len(s)] = " " THEN TrimEnd(SubSeq(s, 1, Len(s) - 1)) ELSE s

\* body('title').trim(): the sanitizer rewrites req.body.title; an absent
\* title is rewritten to the empty string.
Trim(t) == Title(TrimEnd(TrimStart(t.val)))

TitleInputs ==
    {NoTitle, Title(<<>>), Title(<<" ">>), Title(<<"X">>), Title(<<" ", "Y">>)}

\* Tags: absent, an array, or a value that is no array.  An element of the
\* array is a value with its typeof.
Tags(s) == [kind |-> "array", val |-> s]
NoTags == [kind |-> "undefined", val |-> <<>>]
BadTags == [kind |-> "string", val |-> <<>>]

Tag(t) == [kind |-> "string", val |-> t]
NumberTag == [kind |-> "number", val |-> "1"]

TagInputs ==
    {NoTags, BadTags, Tags(<<>>), Tags(<<Tag("t")>>), Tags(<<NumberTag>>)}

NoteBody(t, c, g) == [title |-> t, content |-> c, tags |-> g]

NoBody == NoteBody(NoTitle, NoContent, NoTags)

Howdy == Content(4, 1, 0, 0, 0)

\* Bodies of create requests: valid ones, and one per way of failing validation.
NoteBodies ==
    {NoteBody(Title(<<"X">>), Hello, NoTags),
     NoteBody(Title(<<" ", "Y">>), Hello, NoTags),
     NoteBody(Title(<<"Y">>), Howdy, Tags(<<Tag("t")>>)),
     NoteBody(NoTitle, Hello, NoTags),
     NoteBody(Title(<<" ">>), Hello, NoTags),
     NoteBody(Title(<<"X">>), NoContent, NoTags),
     NoteBody(Title(<<"X">>), Hello, BadTags),
     NoteBody(Title(<<"X">>), Hello, Tags(<<NumberTag>>))}

\* Bodies of update requests: no field, one field, every field, a falsy
\* content, and one per way of failing validation.
NotePatches ==
    {NoBody,
     NoteBody(Title(<<"Y", " ">>), NoContent, NoTags),
     NoteBody(Title(<<"Y">>), Howdy, Tags(<<Tag("t")>>)),
     NoteBody(NoTitle, Content(0, 0, 0, 0, 0), NoTags),
     NoteBody(Title(<<>>), NoContent, NoTags),
     NoteBody(NoTitle, NoContent, BadTags),
     NoteBody(NoTitle, NoContent, Tags(<<NumberTag>>))}

\* Bodies of create and update requests for concurrent updates: one note to
\* create, a patch of its title, a patch of its content and tags, and a body
\* that fails validation.
RaceNoteBodies ==
    {NoteBody(Title(<<"X">>), Hello, NoTags),
     NoteBody(NoTitle, Hello, NoTags)}

RaceNotePatches ==
    {NoteBody(Title(<<"Y", " ">>), NoContent, NoTags),
     NoteBody(NoTitle, Howdy, Tags(<<Tag("t")>>)),
     NoteBody(NoTitle, NoContent, BadTags)}

\* Bodies of note requests at the size limit.
BoundaryNoteBodies ==
    {NoteBody(t, c, NoTags) : t \in {Title(<<"X">>), Title(<<>>)}, c \in BoundaryContents}

\* A doubt's body: question and description are not validated.
DoubtBody(q, d) == [question |-> q, description |-> d, tags |-> NoTags]

DoubtBodies == {DoubtBody(Hello, Howdy)}

BoundaryDoubtBodies ==
    {DoubtBody(c, Hello) : c \in BoundaryContents}
    \cup {DoubtBody(Hello, Content(MaxContentBytes + 1, 0, 0, 0, 0))}

\* The isResolved property of a resolve request's body, with its typeof.
IsResolved(kind, b) == [kind |-> kind, val |-> b]

ResolveBodies ==
    {IsResolved("boolean", b) : b \in BOOLEAN}
    \cup {IsResolved("undefined", FALSE), IsResolved("string", TRUE)}

\* A timetable's schedule: day entries, each with its slots.
Days ==
    <<"Monday", "Tuesday", "Wednesday", "Thursday", "Friday", "Saturday", "Sunday">>

DefaultSchedule == [i \in 1..7 |-> [day |-> Days[i], slots |-> <<>>]]

ScheduleInputs ==
    {[DefaultSchedule EXCEPT ![1].slots = <<"9:00 Maths">>],
     <<[day |-> "Monday", slots |-> <<"9:00 Maths">>]>>}

(***************************************************************************)
(* Requests and responses.                                                 *)
(***************************************************************************)
NoteRoutes ==
    {"GET /api/notes", "POST /api/notes", "PUT /api/notes/:id",
     "DELETE /api/notes/:id"}

DoubtRoutes == {"POST /api/doubts", "PUT /api/doubts/:id/resolve"}

TimetableRoutes == {"GET /api/timetable", "POST /api/timetable"}

AnswerRoutes == {"POST /api/doubts/:id/answers"}

\* The routes the server entry point registers with auth in front of their
\* handler.
AuthRoutes ==
    NoteRoutes \cup DoubtRoutes \cup AnswerRoutes \cup TimetableRoutes

\* A request past the authenticator: its route and header, the identity
\* attached, the collaborators the authenticator called, and what the user
\* lookup did if it was made.
NoReq ==
    [route |-> "none", header |-> NoHeader, user |-> NoUser, calls |-> {},
     lookup |-> "none"]

\* A response: the route, header and identity of the request it answers,
\* whether the route's handler ran, the status, the request's target and body,
\* the documents sent back, and whether the request wrote to the store.
Response(route, h, user, handled, status, id, body, out, wrote) ==
    [route |-> route, header |-> h, user |-> user, handled |-> handled,
     status |-> status, id |-> id, body |-> body, out |-> out, wrote |-> wrote]

NoResponse == Response("none", NoHeader, NoUser, FALSE, 0, 0, NoBody, <<>>, FALSE)

\* A handler's response.
Handled(status, id, body, out, wrote) ==
    Response(req.route, req.header, req.user, TRUE, status, id, body, out, wrote)

\* A request reaches a route that names auth: the authenticator answers it, or
\* attaches an identity and calls next().
Authenticate(headers, routes) ==
    /\ phase = "listening"
    /\ req = NoReq
    /\ last = NoResponse
    /\ \E route \in routes, h \in headers, lookup \in LookupOutcomes :
        LET a == Auth(h, lookup, disableAuth, jwtSecret, users)
            calls == AuthCalls(h, disableAuth, jwtSecret)
        IN  IF a.next
            THEN /\ req' = [route |-> route, header |-> h, user |-> a.user,
                             calls |-> calls,
                             lookup |-> IF "User.findById" \in calls
                                        THEN lookup ELSE "none"]
                 /\ UNCHANGED last
            ELSE /\ last' = Response(route, h, a.user, FALSE, a.status, 0,
                                     NoBody, <<>>, FALSE)
                 /\ UNCHANGED req
    /\ UNCHANGED <<config, server, inflight, notes, doubts, timetables, nextId>>

\* res.json(...) has sent the response: the exchange is over, and the server
\* takes the next request.
EndResponse ==
    /\ last # NoResponse
    /\ last' = NoResponse
    /\ UNCHANGED <<config, server, inflight, notes, doubts, timetables, nextId, req>>

(***************************************************************************)
(* The document store, as the specification describes it.                  *)
(***************************************************************************)
\* Note.find({ author }): equality on the stored owner reference; an
\* undefined operand matches the documents that store no owner.
NotesOf(author) == Filter(notes, LAMBDA n : n.author = author)

\* Note.findOne({ _id, author })
FindNote(id, author) == Filter(notes, LAMBDA n : n.id = id /\ n.author = author)

\* Doubt.findById(id)
FindDoubt(id) == Filter(doubts, LAMBDA d : d.id = id)

\* Timetable.find({ author }), in insertion order; findOne gives the first.
FindTimetable(author) == Filter(timetables, LAMBDA t : t.author = author)

\* The document a findOne gives: the first match, if any.
First(found) == IF found = <<>> THEN <<>> ELSE <<found[1]>>

\* Note.findById(id)
FindNoteById(id) == Filter(notes, LAMBDA n : n.id = id)

\* note.save() of a note loaded as old and since assigned to, giving new: the
\* stored note gets the paths whose value is no longer the one loaded, and a
\* new updatedAt.  Nothing is written when no path was modified, or when the
\* note is gone from the store (the call then resolves or throws, as any store
\* call may).
SaveNote(old, new) ==
    LET cur == FindNoteById(old.id)
        merged == [cur[1] EXCEPT
                     !.title = IF new.title # old.title THEN new.title ELSE @,
                     !.content = IF new.content # old.content
                                 THEN new.content ELSE @,
                     !.tags = IF new.tags # old.tags THEN new.tags ELSE @]
    IN  IF new = old \/ cur = <<>> THEN notes
        ELSE <<merged>> \o Filter(notes, LAMBDA n : n.id # old.id)

\* doubt.save() of a doubt loaded as old whose isResolved was assigned.
SaveResolved(old, new) ==
    [k \in 1..Len(doubts) |->
        IF doubts[k].id = old.id /\ new.isResolved # old.isResolved
        THEN [doubts[k] EXCEPT !.isResolved = new.isResolved]
        ELSE doubts[k]]

\* timetable.save() of a timetable loaded as old whose schedule was assigned.
SaveSchedule(old, new) ==
    [k \in 1..Len(timetables) |->
        IF timetables[k].id = old.id /\ new.schedule # old.schedule
        THEN [timetables[k] EXCEPT !.schedule = new.schedule]
        ELSE timetables[k]]

(***************************************************************************)
(* The example protected route of the entry point that requires            *)
(* './middleware/auth' as the module exports it.                           *)
(***************************************************************************)
GetProtected ==
    /\ req.route = "GET /api/protected"
    /\ last' = Handled(200, 0, NoBody, <<>>, FALSE)
    /\ req' = NoReq
    /\ UNCHANGED <<config, server, inflight, notes, doubts, timetables, nextId>>

(***************************************************************************)
(* Handlers between their awaits.  A handler runs to its first await in    *)
(* the step that takes the request from the authenticator; each later      *)
(* await is a step of its own, and between the steps of one handler the    *)
(* steps of others are taken.  A store call takes effect in the step that  *)
(* resumes from it.  next() calls the handler in the authenticator's own   *)
(* turn: no handler resumes between the two.                               *)
(***************************************************************************)
\* A handler suspended at an await: the route and identity of its request,
\* the call awaited, the request's target and body, and the document the
\* handler holds (the one its lookup returned, or the one it built).  The
\* header, which no handler reads, is not kept.
Suspended(pc, id, found, body) ==
    [route |-> req.route, user |-> req.user, pc |-> pc, id |-> id,
     found |-> found, body |-> body]

\* The response of a handler resumed from an await.
Resumed(c, status, body, out, wrote) ==
    Response(c.route, NoHeader, c.user, TRUE, status, c.id, body, out, wrote)

\* The suspended handlers of a route at a call.
At(route, pc) == {c \in BagToSet(inflight) : c.route = route /\ c.pc = pc}

\* How many of the suspended handlers are among those of a set.
CountOf(handlers) ==
    BagCardinality([c \in handlers |-> CopiesIn(c, inflight)])

\* The suspended handlers with one more, with one less, and with one moved on
\* to its next await.
Suspend(c) == inflight (+) SetToBag({c})
Resume(c) == inflight (-) SetToBag({c})
MoveOn(c, pc) == Resume(c) (+) SetToBag({[c EXCEPT !.pc = pc]})

(***************************************************************************)
(* Notes routes.  Every document carries, besides its stored fields, the   *)
(* identifier of the identity that created it (creator), which the store   *)
(* does not hold.                                                          *)
(***************************************************************************)
\* body('tags.*').optional().isString(): every element of a tags array is a
\* string.
TagsAreStrings(tags) ==
    tags.kind = "array" => \A i \in 1..Len(tags.val) : tags.val[i].kind = "string"

\* The validation chain of POST /api/notes.
PostNoteValid(body, release) ==
    /\ Trim(body.title).val # <<>>
    /\ body.content.kind = "string"
    /\ ValidatorLength(body.content, release) <= MaxContentBytes
    /\ body.tags.kind \in {"undefined", "array"}
    /\ TagsAreStrings(body.tags)

\* The validation chain of PUT /api/notes/:id: every field is optional.
PutNoteValid(body, release) ==
    /\ body.title.kind = "undefined" \/ Trim(body.title).val # <<>>
    /\ body.content.kind = "undefined"
       \/ (body.content.kind = "string"
           /\ ValidatorLength(body.content, release) <= MaxContentBytes)
    /\ body.tags.kind \in {"undefined", "array"}
    /\ TagsAreStrings(body.tags)

\* The owner reference every route stamps and queries by: req.user._id.
OwnerRef(user) == user._id

\* if (content): undefined and '' are falsy.
Truthy(c) == c.kind = "string" /\ StringLength(c) > 0

\* if (title), after the sanitizer: undefined and '' are falsy.
TruthyTitle(t) == t.kind = "string" /\ Trim(t).val # <<>>

GetNotes ==
    /\ req.route = "GET /api/notes"
    /\ \E store \in StoreOutcomes :
        last' = IF store = "throws" THEN Handled(500, 0, NoBody, <<>>, FALSE)
                ELSE Handled(200, 0, NoBody, NotesOf(OwnerRef(req.user)), FALSE)
    /\ req' = NoReq
    /\ UNCHANGED <<config, server, inflight, notes, doubts, timetables, nextId>>

PostNotesStatus(body, store, release) ==
    IF ~PostNoteValid(body, release) THEN 400
    ELSE IF ByteLength(body.content) > MaxContentBytes THEN 413
    ELSE IF store = "throws" THEN 500
    ELSE 201

PostNotes(bodies) ==
    /\ req.route = "POST /api/notes"
    /\ nextId <= MaxIds
    /\ \E body \in bodies, store \in StoreOutcomes,
          release \in ValidatorReleases :
        LET note == [id |-> nextId,
                     title |-> Trim(body.title).val,
                     content |-> body.content,
                     tags |-> body.tags.val,
                     author |-> OwnerRef(req.user),
                     creator |-> RequesterId(req.user)]
            status == PostNotesStatus(body, store, release)
        IN  IF status # 201
            THEN /\ last' = Handled(status, 0, body, <<>>, FALSE)
                 /\ UNCHANGED <<notes, nextId>>
            ELSE /\ notes' = <<note>> \o notes
                 /\ nextId' = nextId + 1
                 /\ last' = Handled(201, note.id, body, <<note>>, TRUE)
    /\ req' = NoReq
    /\ UNCHANGED <<config, server, inflight, doubts, timetables>>

\* What the update handler answers before its save, 200 standing for going on
\* to the save: validation, then the lookup, then the size of the content.
PutNoteStatus(body, store, found, release) ==
    IF ~PutNoteValid(body, release) THEN 400
    ELSE IF store = "throws" THEN 500
    ELSE IF found = <<>> THEN 404
    ELSE IF Truthy(body.content) /\ ByteLength(body.content) > MaxContentBytes
    THEN 413
    ELSE 200

\* if (title) note.title = title; if (content) note.content = content;
\* if (tags) note.tags = tags: the handler's document after the assignments.
Patched(note, body) ==
    [note EXCEPT
       !.title = IF TruthyTitle(body.title) THEN Trim(body.title).val ELSE @,
       !.content = IF Truthy(body.content) THEN body.content ELSE @,
       !.tags = IF body.tags.kind = "array" THEN body.tags.val ELSE @]

\* const note = await Note.findOne({ _id, author }), and the checks that
\* follow it, up to the await of the save.
PutNote(bodies) ==
    /\ req.route = "PUT /api/notes/:id"
    /\ BagCardinality(inflight) < MaxInflight
    /\ \E body \in bodies, id \in 1..nextId, store \in StoreOutcomes,
          release \in ValidatorReleases :
        LET found == FindNote(id, OwnerRef(req.user))
            status == PutNoteStatus(body, store, found, release)
        IN  IF status # 200
            THEN /\ last' = Handled(status, id, NoBody, <<>>, FALSE)
                 /\ UNCHANGED inflight
            ELSE /\ inflight' = Suspend(Suspended("save", id, found, body))
                 /\ UNCHANGED last
    /\ req' = NoReq
    /\ UNCHANGED <<config, server, notes, doubts, timetables, nextId>>

\* await note.save(): the paths assigned a value other than the one loaded are
\* written to the stored note, which moves to the head of the collection; the
\* response carries the handler's document.
PutNoteSave ==
    /\ req = NoReq
    /\ last = NoResponse
    /\ \E c \in At("PUT /api/notes/:id", "save"), store \in StoreOutcomes :
        LET old == c.found[1]
            new == Patched(old, c.body)
        IN  /\ inflight' = Resume(c)
            /\ IF store = "throws"
               THEN /\ last' = Resumed(c, 500, NoBody, <<>>, FALSE)
                    /\ UNCHANGED notes
               ELSE /\ notes' = SaveNote(old, new)
                    /\ last' = Resumed(c, 200, NoBody, <<new>>,
                                       new # old /\ FindNoteById(c.id) # <<>>)
    /\ UNCHANGED <<config, server, doubts, timetables, nextId, req>>

\* What the delete handler answers before its delete, 200 standing for going
\* on to the delete.
DeleteNoteStatus(store, found) ==
    IF store = "throws" THEN 500
    ELSE IF found = <<>> THEN 404
    ELSE 200

\* const note = await Note.findOne({ _id, author }); if (!note) 404
DeleteNote ==
    /\ req.route = "DELETE /api/notes/:id"
    /\ BagCardinality(inflight) < MaxInflight
    /\ \E id \in 1..nextId, store \in StoreOutcomes :
        LET found == FindNote(id, OwnerRef(req.user))
            status == DeleteNoteStatus(store, found)
        IN  IF status # 200
            THEN /\ last' = Handled(status, id, NoBody, <<>>, FALSE)
                 /\ UNCHANGED inflight
            ELSE /\ inflight' = Suspend(Suspended("delete", id, found, NoBody))
                 /\ UNCHANGED last
    /\ req' = NoReq
    /\ UNCHANGED <<config, server, notes, doubts, timetables, nextId>>

\* await Note.findByIdAndDelete(req.params.id): the note with that identifier
\* is removed if it is still there; the result is not looked at.
DeleteNoteDelete ==
    /\ req = NoReq
    /\ last = NoResponse
    /\ \E c \in At("DELETE /api/notes/:id", "delete"), store \in StoreOutcomes :
        /\ inflight' = Resume(c)
        /\ IF store = "throws"
           THEN /\ last' = Resumed(c, 500, NoBody, <<>>, FALSE)
                /\ UNCHANGED notes
           ELSE /\ notes' = Filter(notes, LAMBDA n : n.id # c.id)
                /\ last' = Resumed(c, 200, NoBody, <<>>,
                                   FindNoteById(c.id) # <<>>)
    /\ UNCHANGED <<config, server, doubts, timetables, nextId, req>>

(***************************************************************************)
(* Doubts routes.                                                          *)
(***************************************************************************)
\* GET /api/doubts, which names no authenticator: every doubt, most recently
\* created first.
GetDoubts ==
    /\ phase = "listening"
    /\ req = NoReq
    /\ last = NoResponse
    /\ \E store \in StoreOutcomes :
        last' = IF store = "throws"
                THEN Response("GET /api/doubts", NoHeader, NoUser, TRUE, 500, 0,
                              NoBody, <<>>, FALSE)
                ELSE Response("GET /api/doubts", NoHeader, NoUser, TRUE, 200, 0,
                              NoBody, doubts, FALSE)
    /\ UNCHANGED <<config, server, inflight, notes, doubts, timetables, nextId,
                   req>>

\* const doubt = new Doubt({ ... author: req.user._id }); await doubt.save()
PostDoubts(bodies) ==
    /\ req.route = "POST /api/doubts"
    /\ nextId <= MaxIds
    /\ BagCardinality(inflight) < MaxInflight
    /\ \E body \in bodies, store \in StoreOutcomes :
        LET doubt == [id |-> nextId,
                      question |-> body.question,
                      description |-> body.description,
                      tags |-> body.tags.val,
                      author |-> OwnerRef(req.user),
                      creator |-> RequesterId(req.user),
                      isResolved |-> FALSE,
                      answers |-> <<>>]
        IN  IF store = "throws"
            THEN /\ last' = Handled(500, 0, body, <<>>, FALSE)
                 /\ UNCHANGED <<doubts, nextId, inflight>>
            ELSE /\ doubts' = <<doubt>> \o doubts
                 /\ nextId' = nextId + 1
                 /\ inflight' = Suspend(Suspended("populate", doubt.id, <<doubt>>,
                                                 body))
                 /\ UNCHANGED last
    /\ req' = NoReq
    /\ UNCHANGED <<config, server, notes, timetables>>

\* await doubt.populate('author', 'name avatar'): a populate that throws is
\* answered 500 after the doubt was saved.
PostDoubtsPopulate ==
    /\ req = NoReq
    /\ last = NoResponse
    /\ \E c \in At("POST /api/doubts", "populate"), store \in StoreOutcomes :
        /\ inflight' = Resume(c)
        /\ last' = IF store = "throws"
                   THEN Resumed(c, 500, c.body, <<>>, TRUE)
                   ELSE Resumed(c, 201, c.body, c.found, TRUE)
    /\ UNCHANGED <<config, server, notes, doubts, timetables, nextId, req>>

\* The resolve route as it would be with the body tested before the author.
ResolveStatusBodyFirst(body, store, found, user) ==
    IF store = "throws" THEN 500
    ELSE IF found = <<>> THEN 404
    ELSE IF body.kind # "boolean" THEN 400
    ELSE IF String(RequesterId(user)) # String(found[1].author) THEN 403
    ELSE 200

\* The resolve route as it would be if it flipped the flag.
ResolvedToggle(doubt, body) == [doubt EXCEPT !.isResolved = ~@]

\* doubt.isResolved = isResolved
Resolved(doubt, body) == [doubt EXCEPT !.isResolved = body.val]

\* What the resolve handler answers before its save, 200 standing for going on
\* to the save.
ResolveStatus(body, store, found, user) ==
    IF store = "throws" THEN 500
    ELSE IF found = <<>> THEN 404
    ELSE IF String(RequesterId(user)) # String(found[1].author) THEN 403
    ELSE IF body.kind # "boolean" THEN 400
    ELSE 200

\* const doubt = await Doubt.findById(req.params.id), and the checks that
\* follow it, up to the await of the save.
ResolveDoubt ==
    /\ req.route = "PUT /api/doubts/:id/resolve"
    /\ BagCardinality(inflight) < MaxInflight
    /\ \E body \in ResolveBodies, id \in 1..nextId, store \in StoreOutcomes :
        LET found == FindDoubt(id)
            status == ResolveStatus(body, store, found, req.user)
        IN  IF status # 200
            THEN /\ last' = Handled(status, id, body, <<>>, FALSE)
                 /\ UNCHANGED inflight
            ELSE /\ inflight' = Suspend(Suspended("save", id, found, body))
                 /\ UNCHANGED last
    /\ req' = NoReq
    /\ UNCHANGED <<config, server, notes, doubts, timetables, nextId>>

\* await doubt.save(): isResolved is written if the handler gave it a value
\* other than the one loaded.
ResolveSave ==
    /\ req = NoReq
    /\ last = NoResponse
    /\ \E c \in At("PUT /api/doubts/:id/resolve", "save"),
          store \in StoreOutcomes :
        LET old == c.found[1]
            new == Resolved(old, c.body)
        IN  IF store = "throws"
            THEN /\ inflight' = Resume(c)
                 /\ last' = Resumed(c, 500, c.body, <<>>, FALSE)
                 /\ UNCHANGED doubts
            ELSE /\ inflight' = MoveOn(c, "populate")
                 /\ doubts' = SaveResolved(old, new)
                 /\ UNCHANGED last
    /\ UNCHANGED <<config, server, notes, timetables, nextId, req>>

\* await doubt.populate('author', 'name avatar'): a populate that throws is
\* answered 500 after the save.  The response carries the handler's document.
ResolvePopulate ==
    /\ req = NoReq
    /\ last = NoResponse
    /\ \E c \in At("PUT /api/doubts/:id/resolve", "populate"),
          store \in StoreOutcomes :
        LET old == c.found[1]
            new == Resolved(old, c.body)
        IN  /\ inflight' = Resume(c)
            /\ last' = IF store = "throws"
                       THEN Resumed(c, 500, c.body, <<>>, new # old)
                       ELSE Resumed(c, 200, c.body, <<new>>, new # old)
    /\ UNCHANGED <<config, server, notes, doubts, timetables, nextId, req>>

(***************************************************************************)
(* POST /api/doubts/:id/answers.                                           *)
(***************************************************************************)
\* req.body.text
AnswerTexts == {"42"}

AnswerBody(text) == [text |-> text]

\* const answer = { text, author: req.user._id }
Answer(text, user) ==
    [text |-> text, author |-> OwnerRef(user), creator |-> RequesterId(user)]

\* Every answer in storage.
AnswersStored ==
    UNION {{<<doubts[i].id, j>> : j \in 1..Len(doubts[i].answers)} :
              i \in 1..Len(doubts)}

\* const doubt = await Doubt.findById(req.params.id); if (!doubt) 404
AnswersFind ==
    /\ req.route = "POST /api/doubts/:id/answers"
    /\ BagCardinality(inflight) < MaxInflight
    /\ Cardinality(AnswersStored)
         + CountOf(At("POST /api/doubts/:id/answers", "save")) < MaxAnswers
    /\ \E id \in 1..nextId, text \in AnswerTexts, store \in StoreOutcomes :
        LET found == FindDoubt(id)
        IN  IF store = "throws"
            THEN /\ last' = Handled(500, id, AnswerBody(text), <<>>, FALSE)
                 /\ UNCHANGED inflight
            ELSE IF found = <<>>
            THEN /\ last' = Handled(404, id, AnswerBody(text), <<>>, FALSE)
                 /\ UNCHANGED inflight
            ELSE /\ inflight' = Suspend(Suspended("save", id, found,
                                                 AnswerBody(text)))
                 /\ UNCHANGED last
    /\ req' = NoReq
    /\ UNCHANGED <<config, server, notes, doubts, timetables, nextId>>

\* doubt.answers.push(answer); await doubt.save(): the save of a document
\* whose array was pushed to sends the pushed elements, which the store
\* appends to the array it holds.
AnswersSave ==
    /\ req = NoReq
    /\ last = NoResponse
    /\ \E c \in At("POST /api/doubts/:id/answers", "save"),
          store \in StoreOutcomes :
        LET answer == Answer(c.body.text, c.user)
        IN  IF store = "throws"
            THEN /\ inflight' = Resume(c)
                 /\ last' = Resumed(c, 500, c.body, <<>>, FALSE)
                 /\ UNCHANGED doubts
            ELSE /\ inflight' = MoveOn(c, "populate")
                 /\ doubts' = [k \in 1..Len(doubts) |->
                                 IF doubts[k].id = c.id
                                 THEN [doubts[k] EXCEPT
                                         !.answers = Append(@, answer)]
                                 ELSE doubts[k]]
                 /\ UNCHANGED last
    /\ UNCHANGED <<config, server, notes, timetables, nextId, req>>

\* await doubt.populate('answers.author', 'name avatar'): a populate that
\* throws is answered 500 after the answer was saved.  The response carries
\* the handler's document.
AnswersPopulate ==
    /\ req = NoReq
    /\ last = NoResponse
    /\ \E c \in At("POST /api/doubts/:id/answers", "populate"),
          store \in StoreOutcomes :
        LET answer == Answer(c.body.text, c.user)
            copy == [c.found[1] EXCEPT !.answers = Append(@, answer)]
        IN  /\ inflight' = Resume(c)
            /\ last' = IF store = "throws"
                       THEN Resumed(c, 500, c.body, <<>>, TRUE)
                       ELSE Resumed(c, 200, c.body, <<copy>>, TRUE)
    /\ UNCHANGED <<config, server, notes, doubts, timetables, nextId, req>>

(***************************************************************************)
(* Timetable routes.                                                       *)
(***************************************************************************)
\* The body of a timetable request: req.body.schedule.
ScheduleBody(schedule) == [schedule |-> schedule]

\* The suspended handlers that will insert a document when they resume.
Inserting ==
    {c \in BagToSet(inflight) : c.route \in TimetableRoutes /\ c.found = <<>>}

\* let timetable = await Timetable.findOne({ author: req.user._id }): a
\* timetable found is sent back at once; none found, the handler builds the
\* default one and awaits its save.
GetTimetableFind ==
    /\ req.route = "GET /api/timetable"
    /\ BagCardinality(inflight) < MaxInflight
    /\ nextId + CountOf(Inserting) <= MaxTimetables
    /\ \E store \in StoreOutcomes :
        LET found == First(FindTimetable(OwnerRef(req.user)))
        IN  IF store = "throws"
            THEN /\ last' = Handled(500, 0, NoBody, <<>>, FALSE)
                 /\ UNCHANGED inflight
            ELSE IF found # <<>>
            THEN /\ last' = Handled(200, found[1].id, NoBody, <<found[1]>>, FALSE)
                 /\ UNCHANGED inflight
            ELSE /\ inflight' = Suspend(Suspended("save", 0, <<>>,
                                                 ScheduleBody(DefaultSchedule)))
                 /\ UNCHANGED last
    /\ req' = NoReq
    /\ UNCHANGED <<config, server, notes, doubts, timetables, nextId>>

\* let timetable = await Timetable.findOne({ author: req.user._id }): found or
\* not, the handler goes on to a save.
PostTimetableFind ==
    /\ req.route = "POST /api/timetable"
    /\ BagCardinality(inflight) < MaxInflight
    /\ nextId + CountOf(Inserting) <= MaxTimetables
    /\ \E schedule \in ScheduleInputs, store \in StoreOutcomes :
        LET found == First(FindTimetable(OwnerRef(req.user)))
        IN  IF store = "throws"
            THEN /\ last' = Handled(500, 0, NoBody, <<>>, FALSE)
                 /\ UNCHANGED inflight
            ELSE /\ inflight' =
                      Suspend(Suspended("save",
                                        IF found = <<>> THEN 0 ELSE found[1].id,
                                        found, ScheduleBody(schedule)))
                 /\ UNCHANGED last
    /\ req' = NoReq
    /\ UNCHANGED <<config, server, notes, doubts, timetables, nextId>>

\* await timetable.save(): a document the handler built is inserted; a
\* document the lookup returned has its schedule written if the handler gave
\* it a value other than the one loaded.
TimetableSave ==
    /\ req = NoReq
    /\ last = NoResponse
    /\ \E c \in BagToSet(inflight), store \in StoreOutcomes :
        LET fresh == [id |-> nextId,
                      author |-> OwnerRef(c.user),
                      creator |-> RequesterId(c.user),
                      schedule |-> c.body.schedule]
            old == c.found[1]
            new == [old EXCEPT !.schedule = c.body.schedule]
        IN  /\ c.route \in TimetableRoutes
            /\ inflight' = Resume(c)
            /\ IF store = "throws"
               THEN /\ last' = Resumed(c, 500, NoBody, <<>>, FALSE)
                    /\ UNCHANGED <<timetables, nextId>>
               ELSE IF c.found = <<>>
               THEN /\ timetables' = Append(timetables, fresh)
                    /\ nextId' = nextId + 1
                    /\ last' = Resumed([c EXCEPT !.id = fresh.id], 200, NoBody,
                                       <<fresh>>, TRUE)
               ELSE /\ timetables' = SaveSchedule(old, new)
                    /\ last' = Resumed(c, 200, NoBody, <<new>>, new # old)
                    /\ UNCHANGED nextId
    /\ UNCHANGED <<config, server, notes, doubts, req>>

(***************************************************************************)
(* Start of the process.                                                   *)
(***************************************************************************)
\* The exports of './middleware/auth': the request authenticator itself
\* (module.exports = auth), or an object that holds it under the name auth.
AuthExports == {"function", "object"}

\* const authMiddleware = require('./middleware/auth')
Required(exports) == exports

\* const { auth } = require('./middleware/auth'): the property auth of the
\* exports, which a function does not have.
Destructured(exports) == IF exports = "object" THEN "function" ELSE Undefined

\* app.get(path, handler, ...) and the like throw at registration when a
\* handler is not a function.
IsCallback(handler) == handler = "function"

\* The entry point as it would be if it only warned of a missing variable.
EnvironmentUnchecked(uri, secret, origins) == TRUE

\* The early checks of the entry point: MONGODB_URI and JWT_SECRET are set,
\* and ALLOWED_ORIGINS is set in production.
EnvironmentValid(uri, secret, origins) == uri /\ secret /\ origins

\* Module load: a failed check ends in process.exit(1) before
\* mongoose.connect is reached.  After the checks mongoose.connect is called
\* and the routes are registered: when auth is not a function the first
\* registration throws, and the process exits before the continuation of the
\* connection can run.
ValidateEnvironment ==
    /\ phase = "loading"
    /\ phase' = IF /\ EnvironmentValid(mongoUri, jwtSecret, originsOk)
                   /\ IsCallback(Destructured(authModule))
                THEN "connecting" ELSE "exited"
    /\ UNCHANGED <<config, connected, notes, doubts, timetables, nextId, req,
                   inflight, last>>

\* The connection succeeds and the port is free; the connection fails; the
\* connection succeeds and the port is taken.
ConnectOutcomes == {"ok", "fails", "port in use"}

\* mongoose.connect(uri).then(listen).catch(exit): app.listen is called in the
\* continuation of a successful connection; a failed connection and a listen
\* error end in process.exit(1).
Connect ==
    /\ phase = "connecting"
    /\ \E outcome \in ConnectOutcomes :
        /\ connected' = (outcome # "fails")
        /\ phase' = IF outcome = "ok" THEN "listening" ELSE "exited"
    /\ UNCHANGED <<config, notes, doubts, timetables, nextId, req, inflight, last>>

\* SIGTERM or SIGINT, handled from module load on: the connection is closed
\* and the process exits.  The step is the exit; until then the server goes on
\* as before.
Shutdown ==
    /\ phase \in {"connecting", "listening"}
    /\ phase' = "exited"
    /\ UNCHANGED <<config, connected, notes, doubts, timetables, nextId, req,
                   inflight, last>>

\* The port is free, or taken.
ListenOutcomes == {"ok", "port in use"}

\* The entry point that requires './middleware/auth' as the module exports
\* it: it warns of a missing variable, registers its routes and calls
\* app.listen at the end of module load.  The registration of the protected
\* route throws when the exports are not a function.  A port in use is an
\* 'error' event without a listener, which ends the process.
StartOpen ==
    /\ phase = "loading"
    /\ \E outcome \in ListenOutcomes :
        phase' = IF IsCallback(Required(authModule)) /\ outcome = "ok"
                 THEN "listening" ELSE "exited"
    /\ UNCHANGED <<config, connected, notes, doubts, timetables, nextId, req,
                   inflight, last>>

\* mongoose.connect(MONGODB_URI).then(log).catch(log) of that entry point,
\* called at module load when the variable is set: the connection succeeds
\* while the server is up.  A failed connection is logged and changes nothing.
ConnectOpen ==
    /\ phase = "listening"
    /\ mongoUri
    /\ ~connected
    /\ connected' = TRUE
    /\ UNCHANGED <<config, phase, notes, doubts, timetables, nextId, req,
                   inflight, last>>

(***************************************************************************)
(* The system.                                                             *)
(***************************************************************************)
Init ==
    /\ disableAuth \in BOOLEAN
    /\ jwtSecret \in BOOLEAN
    /\ mongoUri \in BOOLEAN
    /\ originsOk \in BOOLEAN
    /\ authModule \in AuthExports
    /\ phase = "loading"
    /\ connected = FALSE
    /\ users \in SUBSET UserIds
    /\ notes = <<>>
    /\ doubts = <<>>
    /\ timetables = <<>>
    /\ nextId = 1
    /\ req = NoReq
    /\ inflight = EmptyBag
    /\ last = NoResponse

\* A header as a client that holds a credential sends it.
BearerHeaders ==
    {NoHeader} \cup {[present |-> TRUE, str |-> <<BearerPiece, c>>] : c \in Credentials}

\* The server entry point behind the authenticator.
Next ==
    \/ ValidateEnvironment
    \/ Connect
    \/ Shutdown
    \/ Authenticate(BearerHeaders, AuthRoutes)
    \/ GetNotes
    \/ PostNotes(NoteBodies)
    \/ PutNote(NotePatches)
    \/ PutNoteSave
    \/ DeleteNote
    \/ DeleteNoteDelete
    \/ GetDoubts
    \/ PostDoubts(DoubtBodies)
    \/ PostDoubtsPopulate
    \/ AnswersFind
    \/ AnswersSave
    \/ AnswersPopulate
    \/ ResolveDoubt
    \/ ResolveSave
    \/ ResolvePopulate
    \/ GetTimetableFind
    \/ PostTimetableFind
    \/ TimetableSave
    \/ EndResponse

Spec == Init /\ [][Next]_vars

\* The authenticator in front of the protected route, under headers of every
\* shape.
NextAuth ==
    \/ StartOpen
    \/ ConnectOpen
    \/ Authenticate(HeaderInputs, {"GET /api/protected"})
    \/ GetProtected
    \/ EndResponse

SpecAuth == Init /\ [][NextAuth]_vars

\* The notes routes under concurrent requests.
NextNotes ==
    \/ ValidateEnvironment
    \/ Connect
    \/ Authenticate(BearerHeaders, NoteRoutes)
    \/ GetNotes
    \/ PostNotes(RaceNoteBodies)
    \/ PutNote(RaceNotePatches)
    \/ PutNoteSave
    \/ DeleteNote
    \/ DeleteNoteDelete
    \/ EndResponse

SpecNotes == Init /\ [][NextNotes]_vars

\* The doubts board under concurrent requests.
NextDoubts ==
    \/ ValidateEnvironment
    \/ Connect
    \/ Authenticate(BearerHeaders, DoubtRoutes)
    \/ PostDoubts(DoubtBodies)
    \/ PostDoubtsPopulate
    \/ ResolveDoubt
    \/ ResolveSave
    \/ ResolvePopulate
    \/ EndResponse

SpecDoubts == Init /\ [][NextDoubts]_vars

\* The life of the process, from module load to exit, in front of the notes
\* list and create routes.  The checks at module load are synchronous code:
\* once the module is loaded they are run.
NextStartup ==
    \/ ValidateEnvironment
    \/ Connect
    \/ Shutdown
    \/ Authenticate(BearerHeaders, {"GET /api/notes", "POST /api/notes"})
    \/ GetNotes
    \/ PostNotes(NoteBodies)
    \/ EndResponse

SpecStartup ==
    Init /\ [][NextStartup]_vars /\ WF_vars(ValidateEnvironment)

\* The timetable routes under concurrent requests.
NextTimetable ==
    \/ ValidateEnvironment
    \/ Connect
    \/ Authenticate(BearerHeaders, TimetableRoutes)
    \/ GetTimetableFind
    \/ PostTimetableFind
    \/ TimetableSave
    \/ EndResponse

SpecTimetable == Init /\ [][NextTimetable]_vars

\* The doubts board under concurrent answers.
NextAnswers ==
    \/ ValidateEnvironment
    \/ Connect
    \/ Authenticate(BearerHeaders, {"POST /api/doubts"} \cup AnswerRoutes)
    \/ GetDoubts
    \/ PostDoubts(DoubtBodies)
    \/ PostDoubtsPopulate
    \/ AnswersFind
    \/ AnswersSave
    \/ AnswersPopulate
    \/ EndResponse

SpecAnswers == Init /\ [][NextAnswers]_vars

\* The create routes under contents at the size limit.
NextSize ==
    \/ ValidateEnvironment
    \/ Connect
    \/ Authenticate(BearerHeaders, {"POST /api/notes", "POST /api/doubts"})
    \/ PostNotes(BoundaryNoteBodies)
    \/ PostDoubts(BoundaryDoubtBodies)
    \/ PostDoubtsPopulate
    \/ EndResponse

SpecSize == Init /\ [][NextSize]_vars

(***************************************************************************)
(* Properties.                                                             *)
(***************************************************************************)
\* The header carries no bearer credential: it is absent, or nothing is left
\* of it once 'Bearer ' is taken away.
NoCredential(h) == ~h.present \/ h.str = <<>> \/ h.str = <<BearerPiece>>

\* The request presents a credential that is expired or malformed: what is
\* left of the header without its first 'Bearer ' is not a token the server
\* signed, or is one past its expiry.  The word 'Bearer' alone, which is how
\* a header 'Bearer ' with nothing after it is received, is such a header.
BadCredential(h) ==
    /\ ~NoCredential(h)
    /\ LET rest == StripBearer(h.str)
       IN  ~(Len(rest) = 1 /\ rest[1].kind \in {"valid", "noid"})

\* C1: with bypass disabled, a request without a bearer credential is never
\* passed on to the route's handler; the authenticator answers it 401 with no
\* identity attached, whether or not the signing secret is configured.  This
\* holds of the requests received, and of every header value the authenticator
\* can be called with.
C1_NoCredentialIs401 ==
    /\ ~disableAuth =>
        /\ req # NoReq => ~NoCredential(req.header)
        /\ (last # NoResponse /\ last.route = "GET /api/protected"
            /\ NoCredential(last.header)) =>
               /\ last.status = 401
               /\ ~last.handled
               /\ last.user = NoUser
    /\ \A h \in RawHeaders, lookup \in LookupOutcomes, secret \in BOOLEAN :
          NoCredential(h) => Auth(h, lookup, FALSE, secret, users) = Reject(401)

\* C1's case: a request with an empty Authorization header answered 401 by a
\* server without a signing secret.
C1_Witness ==
    /\ ~disableAuth
    /\ ~jwtSecret
    /\ last.route = "GET /api/protected"
    /\ last.header = [present |-> TRUE, str |-> <<>>]
    /\ last.status = 401
    /\ ~last.handled

\* C2 as stated: with bypass disabled, a request presenting an expired or
\* malformed credential is answered 401 in every configuration.
C2_BadCredentialIs401 ==
    (~disableAuth /\ last # NoResponse /\ BadCredential(last.header)) =>
        last.status = 401

\* C2 as amended: with bypass disabled, a request presenting an expired or
\* malformed credential is never passed on; it is answered 401 when the signing
\* secret is configured, whatever the identity store does, and 500 when the
\* secret is not configured.
C2_BadCredentialIs401WithSecret ==
    ~disableAuth =>
        /\ req # NoReq => ~BadCredential(req.header)
        /\ (last # NoResponse /\ BadCredential(last.header)) =>
               /\ last.status = IF jwtSecret THEN 401 ELSE 500
               /\ ~last.handled
               /\ last.user = NoUser

\* C2's case: an expired credential answered 401 by a server with a secret.
C2_Witness ==
    /\ ~disableAuth
    /\ jwtSecret
    /\ last.header =
          [present |-> TRUE,
           str |-> <<BearerPiece, [kind |-> "expired", sub |-> "u1"]>>]
    /\ last.status = 401

\* The documents of a collection with identifier id.
WithId(coll, id) == {d \in Range(coll) : d.id = id}

\* The handlers suspended in this step.
NewlySuspended ==
    {c \in BagToSet(inflight') : CopiesIn(c, inflight') > CopiesIn(c, inflight)}

\* C3 as stated, for requests that pass field validation and reach a store
\* that answers, on a note another identity created: PUT and DELETE
\* /api/notes/:id on a note whose owner is not the caller respond 404 and leave
\* the collection as it was; the handler never goes on to its write.
C3_ForeignNoteIs404 ==
    [][(req.route \in {"PUT /api/notes/:id", "DELETE /api/notes/:id"}
        /\ req' = NoReq)
       => LET me == RequesterId(req.user)
              Foreign(id) == \E n \in WithId(notes, id) :
                                n.author # me /\ n.creator # me
          IN  /\ notes' = notes
              /\ (last' # NoResponse /\ last'.status \notin {400, 500}
                  /\ Foreign(last'.id)) => last'.status = 404
              /\ \A c \in NewlySuspended : ~Foreign(c.id)]_vars

\* C4: a resolve request on an existing doubt by a caller who is not its
\* author is answered 403, whatever the body (500 when the lookup throws), and
\* its handler never goes on to the save; a save of the resolve route writes
\* nothing but the isResolved of a doubt whose author is the caller.
C4_ResolveByOtherIs403 ==
    [][/\ (req.route = "PUT /api/doubts/:id/resolve" /\ req' = NoReq)
          => LET me == RequesterId(req.user)
                 Others(id) == \E d \in WithId(doubts, id) : d.author # me
             IN  /\ doubts' = doubts
                 /\ (last' # NoResponse /\ Others(last'.id))
                       => last'.status \in {403, 500}
                 /\ \A c \in NewlySuspended : ~Others(c.id)
       /\ \A c \in At("PUT /api/doubts/:id/resolve", "save") :
             (inflight' # inflight /\ inflight' \in {Resume(c), MoveOn(c, "populate")})
             => /\ Len(doubts') = Len(doubts)
                /\ \A k \in 1..Len(doubts) :
                      doubts'[k] # doubts[k] =>
                          /\ doubts[k].id = c.id
                          /\ doubts[k].author = RequesterId(c.user)
                          /\ doubts'[k] = [doubts[k] EXCEPT !.isResolved = ~@]]_vars

\* C4's case: a caller who is not the author asked to flip the flag of an
\* existing doubt and got 403.
C4_Witness ==
    /\ last.route = "PUT /api/doubts/:id/resolve"
    /\ last.status = 403
    /\ last.body.kind = "boolean"
    /\ last.user._id # Undefined
    /\ \E d \in WithId(doubts, last.id) :
          /\ d.author \notin {Undefined, RequesterId(last.user)}
          /\ d.isResolved # last.body.val

\* C5: a resolve request by the doubt's author with a boolean b is taken to
\* its save, never refused; its save changes nothing when the stored
\* isResolved is already b (the second of two such requests, in succession or
\* interleaved), and, made with no write to the doubt since its lookup (as
\* when requests follow one another), leaves the doubts as they were but for
\* that doubt's isResolved, which is b; the request is answered 200 with
\* isResolved b (500 when a store call throws).
C5_ResolveIdempotent ==
    [][/\ (/\ req.route = "PUT /api/doubts/:id/resolve"
           /\ req' = NoReq
           /\ last' # NoResponse
           /\ last'.body.kind = "boolean"
           /\ \E d \in WithId(doubts, last'.id) :
                 d.author = RequesterId(req.user))
          => last'.status = 500
       /\ \A c \in At("PUT /api/doubts/:id/resolve", "save") :
             inflight' = MoveOn(c, "populate")
             => /\ (\A d \in WithId(doubts, c.id) : d.isResolved = c.body.val)
                      => doubts' = doubts
                /\ WithId(doubts, c.id) = {c.found[1]}
                      => /\ Len(doubts') = Len(doubts)
                         /\ \A k \in 1..Len(doubts) :
                               doubts'[k] =
                                   IF doubts[k].id = c.id
                                   THEN [doubts[k] EXCEPT
                                           !.isResolved = c.body.val]
                                   ELSE doubts[k]
       /\ \A c \in At("PUT /api/doubts/:id/resolve", "populate") :
             (inflight' = Resume(c) /\ last' # NoResponse)
             => /\ doubts' = doubts
                /\ last'.status \in {200, 500}
                /\ last'.status = 200 =>
                      last'.out = <<[c.found[1] EXCEPT
                                       !.isResolved = c.body.val]>>]_vars

\* C5's case: the author's resolve request with isResolved = true succeeded on
\* a doubt that a request before it had resolved.
C5_Witness ==
    /\ last.route = "PUT /api/doubts/:id/resolve"
    /\ last.status = 200
    /\ last.body = IsResolved("boolean", TRUE)
    /\ ~last.wrote
    /\ \E d \in WithId(doubts, last.id) :
          d.author = RequesterId(last.user) /\ d.isResolved

\* C6 as stated: POST /api/notes with a non-empty title accepts a content of
\* exactly 100,000 UTF-8 bytes (201, the note persisted, when the store
\* answers) and rejects every content of 100,001 bytes with 413, nothing
\* persisted.
C6_ContentSizeBoundary ==
    (/\ last.route = "POST /api/notes"
     /\ last.handled
     /\ last.status # 500
     /\ Trim(last.body.title).val # <<>>
     /\ last.body.content.kind = "string")
    => /\ ByteLength(last.body.content) = MaxContentBytes
            => (last.status = 201 /\ last.wrote)
       /\ ByteLength(last.body.content) = MaxContentBytes + 1
            => (last.status = 413 /\ ~last.wrote)

\* C7 as stated: POST /api/doubts with a question or description of more than
\* 100,000 UTF-8 bytes is rejected with 413 and persists nothing (requests
\* whose store call throws aside).
C7_DoubtContentTooLarge ==
    (/\ last.route = "POST /api/doubts"
     /\ last.handled
     /\ last.status # 500
     /\ \/ ByteLength(last.body.question) > MaxContentBytes
        \/ ByteLength(last.body.description) > MaxContentBytes)
    => (last.status = 413 /\ ~last.wrote)

\* C8, its second half: GET /api/notes never returns a note that another
\* identity created.
C8_NeverAnothersNote ==
    (last.route = "GET /api/notes" /\ last.status = 200)
    => \A n \in Range(last.out) : n.creator = RequesterId(last.user)

\* C9 as stated: every persisted note, doubt and timetable carries an owner
\* reference equal to the identifier of the identity that created it.
C9_OwnerIsCreator ==
    \A d \in Range(notes) \cup Range(doubts) \cup Range(timetables) :
        d.author = d.creator

\* C10, but for the owner of the record created: a GET /api/timetable by a
\* caller who has no timetable in storage (none owned, none created) goes on to
\* create one, and its save persists a timetable with the seven days Monday to
\* Sunday, each without slots, and returns it; a GET by a caller who owns one
\* returns the stored record and writes nothing.
C10_GetOrCreateTimetable ==
    [][/\ (/\ req.route = "GET /api/timetable"
           /\ req' = NoReq
           /\ ~(last' # NoResponse /\ last'.status = 500))
          => LET me == RequesterId(req.user)
                 owned == Filter(timetables, LAMBDA t : t.author = me)
                 mine == Filter(timetables,
                                LAMBDA t : t.author = me \/ t.creator = me)
             IN  /\ timetables' = timetables
                 /\ mine = <<>> =>
                       /\ last' = NoResponse
                       /\ \E c \in NewlySuspended : c.found = <<>>
                 /\ owned # <<>> =>
                       /\ last'.out = <<owned[1]>>
                       /\ inflight' = inflight
       /\ \A c \in At("GET /api/timetable", "save") :
             (inflight' = Resume(c) /\ last' # NoResponse /\ last'.status # 500)
             => /\ last'.status = 200
                /\ Len(last'.out) = 1
                /\ last'.out[1].schedule =
                      <<[day |-> "Monday", slots |-> <<>>],
                        [day |-> "Tuesday", slots |-> <<>>],
                        [day |-> "Wednesday", slots |-> <<>>],
                        [day |-> "Thursday", slots |-> <<>>],
                        [day |-> "Friday", slots |-> <<>>],
                        [day |-> "Saturday", slots |-> <<>>],
                        [day |-> "Sunday", slots |-> <<>>]>>
                /\ timetables' = Append(timetables, last'.out[1])]_vars

\* C11 as stated, request by request: the save of an answers request by an
\* authenticated caller appends to the doubt's stored answers, as they stand
\* when it is saved, exactly one answer, with the request's text and its
\* caller as author, and changes nothing else; a request that is not answered
\* with success has appended nothing; an answers request on a doubt that does
\* not exist is answered 404 (500 when the lookup throws) and changes nothing.
C11_AnswerAppended ==
    [][/\ \A c \in At("POST /api/doubts/:id/answers", "save") :
             inflight' = MoveOn(c, "populate")
             => LET caller == RequesterId(c.user)
                    answer == [text |-> c.body.text, author |-> caller,
                               creator |-> caller]
                IN  /\ Len(doubts') = Len(doubts)
                    /\ \A k \in 1..Len(doubts) :
                          doubts'[k] =
                              IF doubts[k].id = c.id
                              THEN [doubts[k] EXCEPT
                                      !.answers = Append(@, answer)]
                              ELSE doubts[k]
       /\ (last = NoResponse /\ last' # NoResponse /\ last'.handled
           /\ last'.route = "POST /api/doubts/:id/answers")
          => /\ doubts' = doubts
             /\ last'.status # 200 => ~last'.wrote
       /\ (req.route = "POST /api/doubts/:id/answers" /\ req' = NoReq)
          => /\ \A c \in NewlySuspended : WithId(doubts, c.id) # {}
             /\ (last' # NoResponse /\ WithId(doubts, last'.id) = {})
                   => last'.status \in {404, 500}]_vars

\* C12: with the bypass flag enabled, the authenticator passes every request on
\* with the placeholder identity, whatever the Authorization header, the
\* signing secret and the identity store: no request is answered by the
\* authenticator, and neither jwt.verify nor the user lookup is called.
C12_BypassAlwaysProceeds ==
    disableAuth =>
        /\ req # NoReq => (req.user = DevUser /\ req.calls = {}
                           /\ req.lookup = "none")
        /\ last # NoResponse => (last.handled /\ last.user = DevUser)

\* C12's case: under bypass, on a server without a signing secret, a request
\* with a garbage credential reached the handler as the placeholder identity.
C12_Witness ==
    /\ disableAuth
    /\ ~jwtSecret
    /\ last.handled
    /\ last.status = 200
    /\ last.user = DevUser
    /\ last.header =
          [present |-> TRUE,
           str |-> <<BearerPiece, [kind |-> "garbage", sub |-> "-"]>>]

\* The header carries a credential that verifies and holds a subject
\* identifier: without its first 'Bearer ', it is one valid token.
GoodCredential(h) ==
    /\ h.present
    /\ LET rest == StripBearer(h.str)
       IN  Len(rest) = 1 /\ rest[1].kind = "valid"

\* The subject identifier of such a credential.
Subject(h) == StripBearer(h.str)[1].sub

\* C13: with bypass disabled and the secret configured, a request whose
\* credential verifies and carries a subject identifier is never answered by
\* the authenticator; it is passed on with the store's record when the lookup
\* finds one, and with the minimal identity {id} when the record is absent or
\* the lookup throws.  No request is both passed on and answered.
C13_VerifiedProceeds ==
    /\ req = NoReq \/ last = NoResponse
    /\ (~disableAuth /\ jwtSecret) =>
        /\ (req # NoReq /\ GoodCredential(req.header)) =>
              /\ req.lookup \in {"ok", "throws"}
              /\ req.user =
                    IF req.lookup = "ok" /\ Subject(req.header) \in users
                    THEN [_id |-> Subject(req.header), id |-> Subject(req.header)]
                    ELSE [_id |-> Undefined, id |-> Subject(req.header)]
        /\ (last # NoResponse /\ GoodCredential(last.header)) =>
              /\ last.handled
              /\ last.user.id = Subject(last.header)

\* C13's case: the lookup threw for a user the store holds, and the request
\* was passed on with the minimal identity.
C13_Witness ==
    /\ ~disableAuth
    /\ jwtSecret
    /\ "u1" \in users
    /\ GoodCredential(req.header)
    /\ req.lookup = "throws"
    /\ req.user = [_id |-> Undefined, id |-> "u1"]

\* C14: in the authoritative entry point, a process loaded without MONGODB_URI
\* or JWT_SECRET exits, and never connects or listens; the server listens only
\* once the connection has succeeded, and a failed connection ends the
\* process; so every request is received, and every handler runs, with the
\* secret configured and the store connected.
C14_ServesOnlyWhenConfigured ==
    /\ [](phase \in {"connecting", "listening"} => (mongoUri /\ jwtSecret))
    /\ [](phase = "listening" => connected)
    /\ []((req # NoReq \/ last # NoResponse) => (jwtSecret /\ connected))
    /\ [][(phase = "connecting" /\ ~connected') => phase' = "exited"]_vars
    /\ (phase = "loading" /\ ~(mongoUri /\ jwtSecret)) ~> (phase = "exited")

\* C14's case: a handler has answered on a server that validated its
\* environment, connected and is listening.
C14_Witness ==
    /\ phase = "listening"
    /\ connected
    /\ mongoUri /\ jwtSecret
    /\ last.handled
    /\ last.route = "POST /api/notes"
    /\ last.status = 201

\* C15 as stated, for owners with a record in the user store: under every
\* interleaving of the lookups and saves of GET and POST /api/timetable
\* requests, storage holds at most one timetable per owner, and once a POST is
\* acknowledged the timetable storage serves its owner holds the schedule that
\* POST saved.
C15_OneTimetablePerOwner ==
    /\ \A u \in UserIds :
          Cardinality({i \in 1..Len(timetables) : timetables[i].author = u}) <= 1
    /\ (/\ last.route = "POST /api/timetable"
        /\ last.handled
        /\ last.status = 200
        /\ last.user._id # Undefined)
       => LET served == SelectSeq(timetables,
                                  LAMBDA t : t.author = last.user._id)
          IN  /\ served # <<>>
              /\ served[1].schedule = last.out[1].schedule

=============================================================================
